---- MODULE Spec2Model ----
(***************************************************************************)
(* msgpack-rpc-lite: the persistent-connection Client, the id generator,   *)
(* the message builders/parser and the server dispatch of createServer.    *)
(*                                                                         *)
(* JavaScript values are records tagged by their typeof/class:             *)
(*   undefined, null, number, string, array, function, Error.              *)
(* A number is kept as two 16-bit limbs <<hi, lo>> (value hi*2^16 + lo,    *)
(* 0 <= lo < 2^16), so that the 32-bit id counter keeps its full width.    *)
(***************************************************************************)
EXTENDS Integers, Sequences, FiniteSets, TLC

VARIABLES
    msgid,        \* msgidGenerator's counter (process-wide)
    issued,       \* history: the ids returned by msgidGenerator.next(), in order
    calls,        \* history: one record per Client.request / Client.notify call
    listeners,    \* the Client emitter's once-listeners for 'data:<msgid>' events
    socket,       \* state of the Client's socket
    outq,         \* the Client socket's write queue (written, not yet flushed)
    c2s,          \* bytes in flight client -> server, as decoded messages
    s2c,          \* bytes in flight server -> client, as decoded messages
    serverAlive,  \* FALSE once an exception escaped the server's data listener
    registered,   \* method names the hosting application registered with server.on
    invoked,      \* history: listener invocations made by the server's emit
    input,        \* arguments of a createMessage call made on its own
    output,       \* what that createMessage call returned
    seed,         \* history: the counter's value when the model starts
    allocated,    \* history: how many times msgidGenerator.next() was called
    wire,         \* per server socket: the messages its peer sent, and how many were read
    written,      \* history, per server socket: the messages the server wrote to it
    running,      \* history: listener invocations of a server with several sockets
    ended,        \* TRUE once Client.close() has called socket.end()
    sends,        \* per-call-connection client: one record per send(), with its socket
    debugOn,      \* per-call-connection client: debug.enabled (NODE_DEBUG names the module)
    forwarded     \* history: the events the Client's socket emitted, and those the Client emitted

peers == <<wire, written, running>>
percall == <<sends, debugOn, forwarded>>
vars == <<msgid, issued, calls, listeners, socket, outq, c2s, s2c,
          serverAlive, registered, invoked, input, output, seed, allocated, peers,
          ended, percall>>

-----------------------------------------------------------------------------
(* Bounds *)

MaxCalls == 2
MaxCb == 2
MaxGenCalls == 24
MaxLen == 2
MaxConns == 2
MaxPeerMsgs == 3
MaxBuilds == 4
MaxEvents == 4

-----------------------------------------------------------------------------
(* JavaScript values *)

B == 65536

Undefined == [t |-> "undefined"]
Null == [t |-> "null"]
Num(n) == [t |-> "number", n |-> n]
Str(s) == [t |-> "string", s |-> s]
Arr(a) == [t |-> "array", a |-> a]
Fn(name) == [t |-> "function", name |-> name]
Err(m) == [t |-> "Error", message |-> m]

Small(k) == <<0, k>>
MinusOne == <<-1, B - 1>>
Less(a, b) == a[1] < b[1] \/ (a[1] = b[1] /\ a[2] < b[2])
Inc(a) == IF a[2] = B - 1 THEN <<a[1] + 1, 0>> ELSE <<a[1], a[2] + 1>>

Falsy(v) ==
    \/ v.t \in {"undefined", "null"}
    \/ (v.t = "string" /\ v.s = "")
    \/ (v.t = "number" /\ v.n = Small(0))
Or(v, w) == IF Falsy(v) THEN w ELSE v

-----------------------------------------------------------------------------
(* msgidGenerator *)

MAX == <<B - 1, B - 1>>
nextBad(m) == IF Less(m, MAX) THEN Inc(m) ELSE Small(1)
nextLost(m) == m
next(m) == IF Less(m, MAX) THEN Inc(m) ELSE Small(0)

-----------------------------------------------------------------------------
(* Message builders and parser *)

isFunction(object) == object.t = "function"
last(array) == IF Len(array) = 0 THEN Undefined ELSE array[Len(array)]
Pop(array) == IF Len(array) = 0 THEN <<>> ELSE SubSeq(array, 1, Len(array) - 1)
Shift(array) == IF Len(array) = 0 THEN <<>> ELSE Tail(array)
First(array) == IF Len(array) = 0 THEN Undefined ELSE Head(array)

\* a predicate passed by name, applied
Holds(predicate, object) == predicate = "isFunction" /\ isFunction(object)
\* popUnless(array, predicate): the popped value, and the array afterwards
popUnless(array, predicate) ==
    IF Holds(predicate, last(array))
    THEN [value |-> last(array), array |-> Pop(array)]
    ELSE [value |-> Undefined, array |-> array]

createMessageNoPop(type, method, parameters, m) ==
    LET id == IF type = 0 THEN next(m) ELSE m
    IN  [message  |-> <<Num(Small(type))>>
                      \o (IF type = 0 THEN <<Num(id)>> ELSE <<>>)
                      \o <<Str(method), Arr(parameters)>>,
         callback |-> popUnless(parameters, "isFunction").value,
         msgid    |-> id]

createMessageAlways(type, method, parameters, m) ==
    LET popped == popUnless(parameters, "isFunction")
        id == next(m)
    IN  [message  |-> <<Num(Small(type))>>
                      \o (IF type = 0 THEN <<Num(id)>> ELSE <<>>)
                      \o <<Str(method), Arr(popped.array)>>,
         callback |-> popped.value,
         msgid    |-> id]

\* createMessage(type, method, parameters) with the generator's counter m:
\* the message, the callback, and the counter afterwards
createMessage(type, method, parameters, m) ==
    LET popped == popUnless(parameters, "isFunction")
        id == IF type = 0 THEN next(m) ELSE m
    IN  [message  |-> <<Num(Small(type))>>
                      \o (IF type = 0 THEN <<Num(id)>> ELSE <<>>)
                      \o <<Str(method), Arr(popped.array)>>,
         callback |-> popped.value,
         msgid    |-> id]

createResponseMessageNoId(type, id, error, result) ==
    <<Num(Small(type)), Num(MinusOne),
      IF error.t = "Error" THEN Str(error.message) ELSE error, result>>
createResponseMessage(type, id, error, result) ==
    <<Num(Small(type)), id,
      IF error.t = "Error" THEN Str(error.message) ELSE error, result>>

parseMessageSwapped(message) ==
    LET type == First(message)
        m1 == Shift(message)
        paramsOrResult == last(m1)
        m2 == Pop(m1)
        id == last(m2)
        m3 == Pop(m2)
        methodOrError == last(m3)
        is1 == type = Num(Small(1))
    IN  [error  |-> IF is1 THEN methodOrError ELSE Undefined,
         method |-> IF ~is1 THEN methodOrError ELSE Undefined,
         msgid  |-> id,
         params |-> IF ~is1 THEN paramsOrResult ELSE Undefined,
         result |-> IF is1 THEN paramsOrResult ELSE Undefined,
         type   |-> type]
parseMessage(message) ==
    LET type == First(message)
        m1 == Shift(message)
        paramsOrResult == last(m1)
        m2 == Pop(m1)
        methodOrError == last(m2)
        m3 == Pop(m2)
        id == last(m3)
        is1 == type = Num(Small(1))
    IN  [error  |-> IF is1 THEN methodOrError ELSE Undefined,
         method |-> IF ~is1 THEN methodOrError ELSE Undefined,
         msgid  |-> id,
         params |-> IF ~is1 THEN paramsOrResult ELSE Undefined,
         result |-> IF is1 THEN paramsOrResult ELSE Undefined,
         type   |-> type]

\* msgpack.encode followed by the decode stream: undefined and functions are
\* written as nil, arrays element by element, everything else as itself
RECURSIVE Wire(_)
Wire(v) ==
    IF v.t \in {"undefined", "function"} THEN Null
    ELSE IF v.t = "array" THEN Arr([i \in DOMAIN v.a |-> Wire(v.a[i])])
    ELSE v
WireMessage(message) == [i \in DOMAIN message |-> Wire(message[i])]

-----------------------------------------------------------------------------
(* Inputs *)

One == Num(Small(1))
Cb == Fn("callback")

\* counter values a process can have reached when the model starts
Seeds == {Small(0), <<B - 1, B - 2>>}
GenSeeds == {Small(0), <<0, B - 2>>, <<B - 1, B - 4>>, <<B - 1, B - 2>>, MAX}

AppMethods == {"foo"}
\* "foo" is unregistered until serverOn; "connection" is the server's own event
Methods == {"foo", "connection"}
\* argument lists of request/notify: promise form and callback form
ArgLists == {<<One>>, <<One, Cb>>}
\* what a handler passes to its completion callback: <<error, result>>
HandlerOutcomes ==
    { <<Null, Str("bar")>>, <<Err("error"), Undefined>>,
      <<Str("error"), Null>>, <<Str(""), Str("bar")>>, <<Err(""), Undefined>> }

RECURSIVE SeqsUpTo(_, _)
SeqsUpTo(S, n) ==
    IF n = 0 THEN {<<>>}
    ELSE LET shorter == SeqsUpTo(S, n - 1)
         IN  shorter \cup {Append(q, v) : q \in {r \in shorter : Len(r) = n - 1}, v \in S}
ParamValues == {One, Str("a"), Cb}
NoInput == [type |-> 2, method |-> "", parameters |-> <<>>]
NoOutput == [message |-> <<>>, callback |-> Undefined, msgid |-> Small(0)]

\* the sockets a server has accepted
Conns == 1..MaxConns
\* no id allocated yet, no peer has written to any socket of the server, the
\* Client was not closed and the per-call-connection client has sent nothing
NoPeers ==
    /\ allocated = Small(0)
    /\ wire = [c \in Conns |-> [sent |-> <<>>, read |-> 0]]
    /\ written = [c \in Conns |-> <<>>]
    /\ running = <<>>
    /\ ended = FALSE
    /\ sends = <<>>
    /\ debugOn = FALSE
    /\ forwarded = [socket |-> <<>>, client |-> <<>>]

-----------------------------------------------------------------------------
(* Client *)

EventNameAny(id) == <<"data:", Undefined>>
\* 'data:' + msgid
EventName(id) == <<"data:", id>>

\* the listener Client.send registers with this.once for call i
ListenersAfterSendAlways(i, message) ==
    Append(listeners, [event |-> EventName(parseMessage(message).msgid), call |-> i])
ListenersAfterSendConnected(i, message) ==
    IF parseMessage(message).msgid # Undefined /\ socket = "open"
    THEN Append(listeners, [event |-> EventName(parseMessage(message).msgid), call |-> i])
    ELSE listeners
ListenersAfterSend(i, message) ==
    IF parseMessage(message).msgid # Undefined
    THEN Append(listeners, [event |-> EventName(parseMessage(message).msgid), call |-> i])
    ELSE listeners

NewCall(kind, method, parameters, cm) ==
    [kind       |-> kind,
     method     |-> method,
     parameters |-> parameters,
     message    |-> cm.message,
     callback   |-> cm.callback,
     promise    |-> IF Falsy(cm.callback) THEN "pending" ELSE "none",
     value      |-> Undefined,
     cbArgs     |-> <<>>,
     by         |-> <<>>,
     \* history: what became of the socket.write of the message
     write      |-> "queued",
     \* history: the number of ids allocated when this call had built its message
     at         |-> IF kind = "request" THEN Inc(allocated) ELSE allocated,
     \* history: the call was made after Client.close()
     afterEnd   |-> ended]

\* Client.request(method, ...parameters)
request(method, parameters) ==
    /\ Len(calls) < MaxCalls
    /\ LET cm == createMessage(0, method, parameters, msgid)
           i == Len(calls) + 1
       IN  /\ msgid' = cm.msgid
           /\ issued' = Append(issued, cm.msgid)
           /\ calls' = Append(calls, NewCall("request", method, parameters, cm))
           /\ outq' = Append(outq, [call |-> i, message |-> cm.message])
           /\ listeners' = ListenersAfterSend(i, cm.message)
    /\ allocated' = Inc(allocated)
    /\ UNCHANGED <<socket, c2s, s2c, serverAlive, registered, invoked, input, output, seed, peers, ended, percall>>

\* Client.notify(method, ...parameters)
notify(method, parameters) ==
    /\ Len(calls) < MaxCalls
    /\ LET cm == createMessage(2, method, parameters, msgid)
           i == Len(calls) + 1
       IN  /\ msgid' = cm.msgid
           /\ calls' = Append(calls, NewCall("notify", method, parameters, cm))
           /\ outq' = Append(outq, [call |-> i, message |-> cm.message])
           /\ listeners' = ListenersAfterSend(i, cm.message)
    /\ UNCHANGED <<issued, socket, c2s, s2c, serverAlive, registered, invoked, input, output, seed, allocated, peers, ended, percall>>

\* the connect listener of net.createConnection: the data listener is piped in
connect ==
    /\ socket = "connecting"
    /\ socket' = "open"
    /\ UNCHANGED <<msgid, issued, calls, listeners, outq, c2s, s2c, serverAlive,
                   registered, invoked, input, output, seed, allocated, peers, ended, percall>>

\* writeListener() as Client.send calls it when the write promise resolves
WriteListenerCalled(c) ==
    IF c.kind = "request" THEN c
    ELSE IF c.promise = "none"
         THEN [c EXCEPT !.cbArgs = Append(@, <<Undefined>>)]
         ELSE IF c.promise = "pending"
              THEN [c EXCEPT !.promise = "resolved", !.value = Undefined]
              ELSE c

WritableAlways(c) == TRUE
\* socket.write takes the message of call c: end() had not been called on the
\* socket when the call wrote it
Writable(c) == ~c.afterEnd

\* the socket flushes the oldest queued write; its callback resolves the
\* promise of writeMessage and Client.send's then-handler runs
writeDone ==
    /\ socket = "open"
    /\ outq # <<>>
    /\ Writable(calls[Head(outq).call])
    /\ LET w == Head(outq)
       IN  /\ c2s' = Append(c2s, WireMessage(w.message))
           /\ calls' = [calls EXCEPT ![w.call] =
                            [WriteListenerCalled(@) EXCEPT !.write = "flushed"]]
    /\ outq' = Tail(outq)
    /\ UNCHANGED <<msgid, issued, listeners, socket, s2c, serverAlive, registered,
                   invoked, input, output, seed, allocated, peers, ended, percall>>

\* the listener Client.request made (promise form) or was given (callback form),
\* called by the once-listener of Client.send with the parsed response
ResponseListenerCalled(c, response, raw) ==
    LET error == Or(response.error, Null)
        result == response.result
        id == Or(response.msgid, Num(MinusOne))
    IN  IF c.promise = "none"
        THEN [c EXCEPT !.cbArgs = Append(@, <<error, result, id>>),
                       !.by = Append(@, raw)]
        ELSE IF c.promise # "pending"
             THEN [c EXCEPT !.by = Append(@, raw)]
             ELSE IF ~Falsy(error)
                  THEN [c EXCEPT !.promise = "rejected", !.value = error,
                                 !.by = Append(@, raw)]
                  ELSE [c EXCEPT !.promise = "resolved",
                                 !.value = Arr(<<result, id>>),
                                 !.by = Append(@, raw)]

ListenersAfterEmitKept(event) == listeners
ListenersAfterEmitCleared(event) == <<>>
\* this.emit(event, ...): a listener registered with once is removed when it is called
ListenersAfterEmit(event) == SelectSeq(listeners, LAMBDA l : l.event # event)

\* the decode stream's data listener installed by the Client constructor
onData ==
    /\ socket = "open"
    /\ s2c # <<>>
    /\ LET response == Head(s2c)
           message == parseMessage(response)
           fired == {k \in DOMAIN listeners : listeners[k].event = EventName(message.msgid)}
           firedCalls == {listeners[k].call : k \in fired}
           kept == ListenersAfterEmit(EventName(message.msgid))
       IN  /\ calls' = [i \in DOMAIN calls |->
                          IF i \in firedCalls
                          THEN ResponseListenerCalled(calls[i], message, response)
                          ELSE calls[i]]
           /\ listeners' = kept
    /\ s2c' = Tail(s2c)
    /\ UNCHANGED <<msgid, issued, socket, outq, c2s, serverAlive, registered,
                   invoked, input, output, seed, allocated, peers, ended, percall>>

-----------------------------------------------------------------------------
(* Server *)

\* this.eventNames(): net.createServer registered onConnection for 'connection'
eventNames == {Str(n) : n \in {"connection"} \cup registered}

\* server.on(method, handler) by the hosting application
serverOn(method) ==
    /\ method \notin registered
    /\ registered' = registered \cup {method}
    /\ UNCHANGED <<msgid, issued, calls, listeners, socket, outq, c2s, s2c,
                   serverAlive, invoked, input, output, seed, allocated, peers, ended, percall>>

NotImplemented(id) == <<One, id, Str("Not Implemented"), Null>>

writeMessageFirst(stream, message) == <<WireMessage(message)>> \o stream
\* writeMessage(socket, message): socket.write of the encoded message; the
\* stream is what was written to the socket and not yet read by the peer
writeMessage(stream, message) == Append(stream, WireMessage(message))

callbackAlways(type) == Fn("respond")
\* the callback the data listener makes for a message of this type
callbackFor(type) == IF type = Num(Small(2)) THEN Undefined ELSE Fn("respond")

\* what the data listener destructures from parseMessage(message), with the
\* defaults msgid = -1 and method = '', and the callback it makes: the
\* arguments of this.emit(method, params, callback)
Invocation(message) ==
    LET parsed == parseMessage(message)
    IN  [method   |-> IF parsed.method = Undefined THEN Str("") ELSE parsed.method,
         params   |-> parsed.params,
         callback |-> callbackFor(parsed.type),
         msgid    |-> IF parsed.msgid = Undefined THEN Num(MinusOne) ELSE parsed.msgid,
         outs     |-> <<>>]

\* the decode stream's data listener installed by onConnection
onMessage ==
    /\ serverAlive
    /\ c2s # <<>>
    /\ LET inv == Invocation(Head(c2s))
       IN  IF inv.method \in eventNames
           THEN /\ invoked' = Append(invoked, inv)
                \* onConnection called with an array for a socket: socket.pipe throws
                /\ serverAlive' = (inv.method # Str("connection"))
                /\ s2c' = s2c
           ELSE /\ s2c' = writeMessage(s2c, NotImplemented(inv.msgid))
                /\ UNCHANGED <<invoked, serverAlive>>
    /\ c2s' = Tail(c2s)
    /\ UNCHANGED <<msgid, issued, calls, listeners, socket, outq, registered,
                   input, output, seed, allocated, peers, ended, percall>>

\* a handler calls the callback it was given with (error, result)
respond(i, error, result) ==
    /\ serverAlive
    /\ i \in DOMAIN invoked
    /\ invoked[i].callback # Undefined
    /\ Len(invoked[i].outs) < MaxCb
    /\ s2c' = writeMessage(s2c, createResponseMessage(1, invoked[i].msgid, error, result))
    /\ invoked' = [invoked EXCEPT ![i].outs = Append(@, <<error, result>>)]
    /\ UNCHANGED <<msgid, issued, calls, listeners, socket, outq, c2s, serverAlive,
                   registered, input, output, seed, allocated, peers, ended, percall>>

-----------------------------------------------------------------------------
(* Specifications *)

Init ==
    /\ seed \in Seeds
    /\ msgid = seed
    /\ issued = <<>>
    /\ calls = <<>>
    /\ listeners = <<>>
    /\ socket = "connecting"
    /\ outq = <<>>
    /\ c2s = <<>>
    /\ s2c = <<>>
    /\ serverAlive = TRUE
    /\ registered = {}
    /\ invoked = <<>>
    /\ input = NoInput
    /\ output = NoOutput
    /\ NoPeers

Next ==
    \/ \E m \in Methods, a \in ArgLists : request(m, a)
    \/ \E m \in Methods, a \in ArgLists : notify(m, a)
    \/ connect
    \/ writeDone
    \/ onData
    \/ \E m \in AppMethods : serverOn(m)
    \/ onMessage
    \/ \E i \in 1..MaxCalls, o \in HandlerOutcomes : respond(i, o[1], o[2])

Spec == Init /\ [][Next]_vars

\* msgidGenerator.next() called on its own, from any counter value
nextCall ==
    /\ Len(issued) < MaxGenCalls
    /\ msgid' = next(msgid)
    /\ issued' = Append(issued, msgid')
    /\ allocated' = Inc(allocated)
    /\ UNCHANGED <<calls, listeners, socket, outq, c2s, s2c, serverAlive,
                   registered, invoked, input, output, seed, peers, ended, percall>>

GenInit ==
    /\ seed \in GenSeeds
    /\ msgid = seed
    /\ issued = <<>>
    /\ calls = <<>>
    /\ listeners = <<>>
    /\ socket = "connecting"
    /\ outq = <<>>
    /\ c2s = <<>>
    /\ s2c = <<>>
    /\ serverAlive = TRUE
    /\ registered = {}
    /\ invoked = <<>>
    /\ input = NoInput
    /\ output = NoOutput
    /\ NoPeers

GenSpec == GenInit /\ [][nextCall]_vars

\* createMessage called on its own with the arguments in input
build ==
    /\ output = NoOutput
    /\ output' = createMessage(input.type, input.method, input.parameters, msgid)
    /\ msgid' = output'.msgid
    /\ issued' = IF input.type = 0 THEN Append(issued, output'.msgid) ELSE issued
    /\ allocated' = IF input.type = 0 THEN Inc(allocated) ELSE allocated
    /\ UNCHANGED <<calls, listeners, socket, outq, c2s, s2c, serverAlive,
                   registered, invoked, input, seed, peers, ended, percall>>

MsgInit ==
    /\ seed \in Seeds
    /\ msgid = seed
    /\ issued = <<>>
    /\ calls = <<>>
    /\ listeners = <<>>
    /\ socket = "connecting"
    /\ outq = <<>>
    /\ c2s = <<>>
    /\ s2c = <<>>
    /\ serverAlive = TRUE
    /\ registered = {}
    /\ invoked = <<>>
    /\ input \in [type : {0, 2}, method : Methods,
                  parameters : SeqsUpTo(ParamValues, MaxLen)]
    /\ output = NoOutput
    /\ NoPeers

MsgSpec == MsgInit /\ [][build]_vars

\* a handler that calls the callback it was given once
LiveOutcomes ==
    { <<Null, Str("bar")>>, <<Err("error"), Undefined>>, <<Str(""), Str("bar")>> }
respondOnce(i) ==
    /\ i \in DOMAIN invoked
    /\ invoked[i].outs = <<>>
    /\ \E o \in LiveOutcomes : respond(i, o[1], o[2])

(* The setting of the test 'call': the handler of "foo" is registered before
   the client connects, every call is a request of "foo", every handler run
   calls its callback once, and the sockets deliver what was written. *)
LiveInit ==
    /\ seed \in Seeds
    /\ msgid = seed
    /\ issued = <<>>
    /\ calls = <<>>
    /\ listeners = <<>>
    /\ socket = "connecting"
    /\ outq = <<>>
    /\ c2s = <<>>
    /\ s2c = <<>>
    /\ serverAlive = TRUE
    /\ registered = {"foo"}
    /\ invoked = <<>>
    /\ input = NoInput
    /\ output = NoOutput
    /\ NoPeers

LiveNext ==
    \/ \E a \in ArgLists : request("foo", a)
    \/ connect
    \/ writeDone
    \/ onData
    \/ onMessage
    \/ \E i \in 1..MaxCalls : respondOnce(i)

LiveSpec ==
    /\ LiveInit
    /\ [][LiveNext]_vars
    /\ WF_vars(connect)
    /\ WF_vars(writeDone)
    /\ WF_vars(onMessage)
    /\ WF_vars(onData)
    /\ \A i \in 1..MaxCalls : WF_vars(respondOnce(i))

-----------------------------------------------------------------------------
(* Helpers of the properties *)

Requests == {i \in DOMAIN calls : calls[i].kind = "request"}
Notifies == {i \in DOMAIN calls : calls[i].kind = "notify"}
\* the id msgidGenerator.next() returned for request call i
AllocatedId(i) == issued[Cardinality({j \in 1..i : calls[j].kind = "request"})]
Settled(c) == c.promise \in {"resolved", "rejected"}
Completed(c) == Settled(c) \/ c.cbArgs # <<>>
EndsWithFunction(parameters) ==
    Len(parameters) > 0 /\ parameters[Len(parameters)].t = "function"
WithoutTrailingFunction(parameters) ==
    IF EndsWithFunction(parameters)
    THEN SubSeq(parameters, 1, Len(parameters) - 1)
    ELSE parameters
InRange32(a) == a[1] \in 0..(B - 1) /\ a[2] \in 0..(B - 1)
\* (a + k) mod 2^32 on limbs, for 0 <= k < 2^16
AddMod32(a, k) == LET lo == a[2] + k IN <<(a[1] + (lo \div B)) % B, lo % B>>

-----------------------------------------------------------------------------
(* C10: the first id next() returns is 1; each id is the previous one plus 1
   modulo 2^32, so 2^32-1 is followed by 0; every id lies in 0..2^32-1; the
   ids of one period are distinct. With the k-th id equal to
   (start + k) mod 2^32, the counter is back at its start after 2^32 calls. *)
C10_IdSequence ==
    /\ InRange32(msgid)
    /\ msgid = AddMod32(seed, Len(issued))
    /\ \A k \in DOMAIN issued :
         /\ InRange32(issued[k])
         /\ issued[k] = AddMod32(seed, k)
         /\ \A j \in 1..(k - 1) : issued[j] # issued[k]
    /\ (seed = Small(0) /\ issued # <<>>) => issued[1] = Small(1)

\* the counter has wrapped: 2^32-1 was returned and then 0
C10_Witness ==
    \E k \in DOMAIN issued : k > 1 /\ issued[k - 1] = MAX /\ issued[k] = Small(0)

(* C9, as stated: parseMessage of the message createMessage(0, method,
   parameters) built returns params equal to the parameters passed, the
   method passed and the id allocated. *)
C9_RoundTripExact ==
    (output # NoOutput /\ input.type = 0) =>
        LET parsed == parseMessage(output.message)
        IN  /\ parsed.params = Arr(input.parameters)
            /\ parsed.method = Str(input.method)
            /\ parsed.msgid = Num(output.msgid)

(* C9, amended: parseMessage of the built Request returns the method passed,
   the id allocated (the one next() just returned), and params equal to the
   parameters passed less a trailing function, which createMessage takes as
   the callback; no arguments, or only a callback, give an empty array. *)
C9_RoundTrip ==
    (output # NoOutput /\ input.type = 0) =>
        LET parsed == parseMessage(output.message)
        IN  /\ parsed.params = Arr(WithoutTrailingFunction(input.parameters))
            /\ parsed.method = Str(input.method)
            /\ parsed.msgid = Num(output.msgid)
            /\ output.msgid = issued[Len(issued)]
            /\ parsed.type = Num(Small(0))
            /\ (input.parameters \in {<<>>, <<Cb>>} => parsed.params = Arr(<<>>))

\* a Request built from two data parameters and parsed back
C9_Witness ==
    /\ output # NoOutput
    /\ input.type = 0
    /\ input.parameters = <<One, Str("a")>>
    /\ parseMessage(output.message).params = Arr(<<One, Str("a")>>)

-----------------------------------------------------------------------------
(* Helpers of the properties about Client and server *)

\* a step of the server's data listener takes the oldest message in flight
ServerTakes == c2s # <<>> /\ c2s' = Tail(c2s)
InboundType == parseMessage(Head(c2s)).type
InboundMethod == parseMessage(Head(c2s)).method
InboundId == parseMessage(Head(c2s)).msgid
\* the invocations of application handlers made for the Request with this id
HandlerRuns(id) ==
    {j \in DOMAIN invoked : /\ invoked[j].msgid = id
                            /\ invoked[j].callback # Undefined
                            /\ invoked[j].method # Str("connection")
                            /\ invoked[j].outs # <<>>}
Queued(i) == \E k \in DOMAIN outq : outq[k].call = i

(* C1: whatever the number of outstanding requests and the order in which
   Responses arrive, a caller is completed only by a message whose id is the
   id allocated for its own request, and what it is given (the callback's
   arguments, the promise's value) is that message's error or result. *)
C1_OwnResponse ==
    \A i \in DOMAIN calls :
        LET c == calls[i]
        IN  /\ c.kind = "notify" => c.by = <<>>
            /\ c.kind = "request" =>
                 /\ \A k \in DOMAIN c.by :
                        parseMessage(c.by[k]).msgid = Num(AllocatedId(i))
                 /\ Completed(c) => c.by # <<>>
                 /\ Len(c.cbArgs) = (IF c.promise = "none" THEN Len(c.by) ELSE 0)
                 /\ \A k \in DOMAIN c.cbArgs :
                        /\ c.cbArgs[k][2] = parseMessage(c.by[k]).result
                        /\ c.cbArgs[k][1] \in {parseMessage(c.by[k]).error, Null}
                 /\ c.promise = "resolved" =>
                        c.value.a[1] = parseMessage(c.by[1]).result
                 /\ c.promise = "rejected" =>
                        c.value = parseMessage(c.by[1]).error

\* two requests outstanding; the second is already completed by its own
\* Response while the Response of the first is still in flight behind it
C1_Witness ==
    /\ Len(calls) >= 2
    /\ calls[1].kind = "request" /\ calls[2].kind = "request"
    /\ calls[1].by = <<>>
    /\ Completed(calls[2])
    /\ parseMessage(calls[2].by[1]).msgid = Num(AllocatedId(2))
    /\ s2c # <<>>
    /\ parseMessage(Head(s2c)).msgid = Num(AllocatedId(1))
    /\ \E l \in DOMAIN listeners : listeners[l].call = 1

(* C2, as stated: for every inbound Request whose method the application did
   not register, the server writes exactly one Response
   [1, id, "Not Implemented", null] with the Request's id and invokes no
   handler; and the promise of a request answered so is rejected with
   "Not Implemented". *)
C2_UnregisteredAnswered ==
    /\ [][(ServerTakes /\ InboundType = Num(Small(0))
                       /\ InboundMethod \notin {Str(n) : n \in registered})
            => /\ s2c' = Append(s2c, <<One, InboundId, Str("Not Implemented"), Null>>)
               /\ invoked' = invoked]_vars
    /\ [](\A i \in Requests :
            (/\ calls[i].promise # "none"
             /\ calls[i].by # <<>>
             /\ parseMessage(calls[i].by[1]).error = Str("Not Implemented"))
            => (calls[i].promise = "rejected"
                /\ calls[i].value = Str("Not Implemented")))

(* C3, as stated: an inbound Notification never makes the server write a
   message, whether its method is registered or not. *)
C3_NotificationSilent ==
    [][(ServerTakes /\ InboundType = Num(Small(2))) => s2c' = s2c]_vars

(* C4, as stated: when a handler passes an Error to its callback, the
   Response's error is the Error's message and the request is rejected with
   exactly that string (the callback form is given it as the error); a plain
   string is forwarded unchanged as the Response's error. *)
C4_ErrorText ==
    \A i \in Requests : \A j \in HandlerRuns(Num(AllocatedId(i))) :
        LET c == calls[i]
            e == invoked[j].outs[1][1]
        IN  c.by # <<>> =>
              /\ e.t = "Error" =>
                   /\ parseMessage(c.by[1]).error = Str(e.message)
                   /\ c.promise # "none" =>
                        (c.promise = "rejected" /\ c.value = Str(e.message))
                   /\ c.promise = "none" => c.cbArgs[1][1] = Str(e.message)
              /\ e.t = "string" => parseMessage(c.by[1]).error = e

(* C6: a request call has one completion channel. If its last argument is a
   function, it returns no promise, the function is not among the params of
   the message and is what the Response is handed to, with (error, result,
   id); otherwise it returns a promise and no callback is called. *)
C6_OneChannel ==
    \A i \in Requests :
        LET c == calls[i]
            params == parseMessage(c.message).params
        IN  /\ EndsWithFunction(c.parameters) <=> c.promise = "none"
            /\ EndsWithFunction(c.parameters) =>
                 /\ c.callback = c.parameters[Len(c.parameters)]
                 /\ params = Arr(SubSeq(c.parameters, 1, Len(c.parameters) - 1))
                 /\ c.value = Undefined
                 /\ \A k \in DOMAIN c.cbArgs : Len(c.cbArgs[k]) = 3
            /\ ~EndsWithFunction(c.parameters) =>
                 /\ c.callback = Undefined
                 /\ params = Arr(c.parameters)
                 /\ c.cbArgs = <<>>
            /\ ~(Settled(c) /\ c.cbArgs # <<>>)

\* one request completed through its callback, another through its promise
C6_Witness ==
    \E i, j \in Requests :
        /\ calls[i].promise = "none" /\ Len(calls[i].cbArgs) = 1
        /\ calls[j].promise = "resolved"

(* C7, as stated: the promise of request is rejected with the Response's
   error exactly when that error is not null, and resolved with
   [result, id] exactly when it is null. *)
C7_RejectIffError ==
    \A i \in Requests :
        LET c == calls[i]
        IN  (c.promise # "none" /\ c.by # <<>>) =>
              LET r == parseMessage(c.by[1])
              IN  /\ r.error # Null =>
                        (c.promise = "rejected" /\ c.value = r.error)
                  /\ r.error = Null =>
                        (c.promise = "resolved" /\ c.value = Arr(<<r.result, r.msgid>>))

(* C8: notify registers no pending entry and waits for no inbound message:
   every registered listener belongs to a request and is keyed by that
   request's id; no inbound message ever reaches a notify call; and a notify
   call is completed exactly when its write has completed. *)
C8_NotifyOnWrite ==
    /\ \A l \in DOMAIN listeners :
          /\ listeners[l].call \in Requests
          /\ listeners[l].event = <<"data:", Num(AllocatedId(listeners[l].call))>>
    /\ \A i \in Notifies :
          /\ calls[i].by = <<>>
          /\ Completed(calls[i]) <=> ~Queued(i)
          /\ Len(calls[i].cbArgs) <= 1

\* a notify call completed while its message is still on its way to the
\* server and nothing has come back from the server
C8_Witness ==
    \E i \in Notifies :
        /\ Completed(calls[i])
        /\ c2s # <<>>
        /\ c2s[Len(c2s)] = WireMessage(calls[i].message)
        /\ s2c = <<>>
        /\ invoked = <<>>
        /\ \A j \in DOMAIN calls : calls[j].by = <<>>

\* request call i is completed with what its handler passed to the callback
CompletedByHandler(i) ==
    /\ i \in Requests
    /\ Completed(calls[i])
    /\ \E j \in HandlerRuns(Num(AllocatedId(i))) :
         LET c == calls[i]
             error == createResponseMessage(1, invoked[j].msgid,
                          invoked[j].outs[1][1], invoked[j].outs[1][2])[3]
             result == Wire(invoked[j].outs[1][2])
         IN  /\ c.promise = "none" =>
                   c.cbArgs[1][2] = result /\ c.cbArgs[1][1] \in {error, Null}
             /\ c.promise = "resolved" => c.value.a[1] = result
             /\ c.promise = "rejected" => c.value = error

(* C5: when every handler run calls its callback and the sockets deliver
   what is written, each of the requests issued on one Client is eventually
   completed, and with what its own handler run passed to the callback. *)
C5_EveryRequestCompletes ==
    \A i \in 1..MaxCalls : (Len(calls) >= i) ~> CompletedByHandler(i)

\* all the requests the bound allows are completed by their own handlers'
\* answers, one of them resolved and another rejected
C5_Witness ==
    /\ Len(calls) = MaxCalls
    /\ \A i \in 1..MaxCalls : CompletedByHandler(i)
    /\ \E i, j \in Requests : calls[i].promise = "resolved" /\ calls[j].promise = "rejected"

-----------------------------------------------------------------------------
(* A long-lived process: msgidGenerator is one object for the whole process,
   so every Client of the process draws from the same counter. *)

MaxPeriods == 2
\* numbers of ids other Clients of the process draw in between: 2^32-2, 2^32-1
Draws == {<<B - 1, B - 2>>, <<B - 1, B - 1>>}
\* a + k on limbs, not reduced
AddCount(a, k) == LET lo == a[2] + k[2] IN <<a[1] + k[1] + (lo \div B), lo % B>>
\* a - k on limbs, for a >= k
SubCount(a, k) == LET lo == a[2] - k[2] IN <<a[1] - k[1] + (IF lo < 0 THEN -1 ELSE 0), lo % B>>
\* the counter after k calls of next(): (m + k) mod 2^32, the closed form of C10
nextTimes(m, k) == LET sum == AddCount(m, k) IN <<sum[1] % B, sum[2]>>

\* other Clients of the process make k requests: k calls of msgidGenerator.next()
otherClients(k) ==
    /\ allocated[1] < MaxPeriods * B
    /\ msgid' = nextTimes(msgid, k)
    /\ allocated' = AddCount(allocated, k)
    /\ UNCHANGED <<issued, calls, listeners, socket, outq, c2s, s2c, serverAlive,
                   registered, invoked, input, output, seed, peers, ended, percall>>

WrapNext ==
    \/ \E a \in ArgLists : request("foo", a)
    \/ \E k \in Draws : otherClients(k)
    \/ connect
    \/ writeDone
    \/ onData
    \/ onMessage
    \/ \E i \in 1..MaxCalls : respondOnce(i)

WrapSpec == LiveInit /\ [][WrapNext]_vars

\* the ids allocated between the messages of two calls number fewer than 2^32
WithinPeriod(c, d) ==
    IF Less(c.at, d.at) THEN SubCount(d.at, c.at)[1] < B ELSE SubCount(c.at, d.at)[1] < B

(* C11, as stated: in every reachable state no two once-listeners of the
   Client (Pending Request Entries) are registered under the same correlation
   id. *)
C11_UniqueIds ==
    \A k, l \in DOMAIN listeners :
        k # l => listeners[k].event # listeners[l].event

(* C11, amended: two Pending Request Entries of a Client carry different ids
   whenever fewer than 2^32 ids were allocated in the process between their
   two requests; in particular two consecutive request calls never get the
   same id (no lost update). *)
C11_UniqueWithinPeriod ==
    \A k, l \in DOMAIN listeners :
        (k # l /\ WithinPeriod(calls[listeners[k].call], calls[listeners[l].call]))
            => listeners[k].event # listeners[l].event

\* two entries are pending whose ids were allocated 2^32 - 1 allocations apart
C11_Witness ==
    \E k, l \in DOMAIN listeners :
        /\ k # l
        /\ SubCount(calls[listeners[l].call].at, calls[listeners[k].call].at) = MAX

-----------------------------------------------------------------------------
\* the Client's data listener takes the oldest inbound message
ClientTakes == s2c # <<>> /\ s2c' = Tail(s2c)
\* the Pending Request Entries registered under the id of that message
Matching == {k \in DOMAIN listeners :
                listeners[k].event = <<"data:", parseMessage(Head(s2c)).msgid>>}

(* C12: an inbound Response fires the one Pending Request Entry registered
   under its id, if there is one, hands that caller this Response and removes
   the entry; every other entry and caller is left as it was; and no caller's
   continuation (callback, or promise settlement) is invoked more than once,
   so a second Response with the same id completes nobody. *)
C12_FiresOnce ==
    /\ [][ClientTakes =>
             /\ Cardinality(Matching) <= 1
             /\ listeners' = SelectSeq(listeners, LAMBDA l :
                                \A k \in Matching : l # listeners[k])
             /\ \A i \in DOMAIN calls :
                   IF \E k \in Matching : listeners[k].call = i
                   THEN calls'[i].by = Append(calls[i].by, Head(s2c))
                   ELSE calls'[i] = calls[i]]_vars
    /\ [](\A i \in DOMAIN calls :
             /\ Len(calls[i].by) <= 1
             /\ Len(calls[i].cbArgs) <= 1)

\* a handler answered one Request twice, the client has taken both Responses
\* and the caller was completed by the first alone, while another entry is
\* still pending
C12_Witness ==
    /\ s2c = <<>>
    /\ listeners # <<>>
    /\ \E j \in DOMAIN invoked : \E i \in Requests :
          /\ Len(invoked[j].outs) = 2
          /\ invoked[j].msgid = Num(AllocatedId(i))
          /\ Completed(calls[i])
          /\ calls[i].by = <<WireMessage(createResponseMessage(1, invoked[j].msgid,
                                invoked[j].outs[1][1], invoked[j].outs[1][2]))>>

(* C13: an inbound Response whose id no Pending Request Entry is registered
   under (its request is already completed, or this client sent no request
   with that id) is dropped: no caller is completed or given an error,
   nothing is written, and the pending table and the id counter stay as they
   were. *)
C13_UnmatchedDropped ==
    [][(ClientTakes /\ Matching = {}) =>
          /\ calls' = calls
          /\ listeners' = listeners
          /\ msgid' = msgid
          /\ outq' = outq
          /\ c2s' = c2s]_vars

\* the client has taken the server's [1, -1, 'Not Implemented', null] for a
\* Notification while a request was pending, and that request is pending still
C13_Witness ==
    /\ Len(calls) = 2
    /\ calls[1].kind = "notify" /\ calls[2].kind = "request"
    /\ outq = <<>> /\ c2s = <<>> /\ s2c = <<>>
    /\ Len(invoked) = 1
    /\ invoked[1].msgid = Num(AllocatedId(2))
    /\ invoked[1].outs = <<>>
    /\ Len(listeners) = 1
    /\ ~Completed(calls[2])

-----------------------------------------------------------------------------
(* A connection that fails: the socket is destroyed by an error before or
   after it connected. *)

\* the socket emits 'error' and 'close'; the listeners the constructor put on
\* them emit the same events on the Client and do nothing else
socketError ==
    /\ socket \in {"connecting", "open"}
    /\ socket' = "closed"
    /\ UNCHANGED <<msgid, issued, calls, listeners, outq, c2s, s2c, serverAlive,
                   registered, invoked, input, output, seed, allocated, peers, ended, percall>>

(* The oldest queued write fails on the destroyed socket. Either the stream
   calls the write's callback with the error, and that callback is the
   resolve of writeMessage's promise, so the then-handler of Client.send runs
   writeListener(); or the stream discards the write without calling it. *)
writeFail(called) ==
    /\ socket = "closed"
    /\ outq # <<>>
    /\ LET w == Head(outq)
       IN  calls' = [calls EXCEPT ![w.call] =
                        [(IF called THEN WriteListenerCalled(@) ELSE @)
                            EXCEPT !.write = "failed"]]
    /\ outq' = Tail(outq)
    /\ UNCHANGED <<msgid, issued, listeners, socket, c2s, s2c, serverAlive, registered,
                   invoked, input, output, seed, allocated, peers, ended, percall>>

NetNext ==
    \/ \E a \in ArgLists : request("foo", a)
    \/ \E a \in ArgLists : notify("foo", a)
    \/ connect
    \/ writeDone
    \/ onData
    \/ onMessage
    \/ \E i \in 1..MaxCalls : respondOnce(i)
    \/ socketError
    \/ \E called \in BOOLEAN : writeFail(called)

NetSpec == LiveInit /\ [][NetNext]_vars

\* the call was completed with an error: its promise is rejected, or its
\* callback was called with a first argument that is not null or undefined
CompletedWithError(c) ==
    \/ c.promise = "rejected"
    \/ /\ c.promise = "none"
       /\ c.cbArgs # <<>>
       /\ c.cbArgs[1][1] \notin {Null, Undefined}
\* the call was completed without error
CompletedWithoutError(c) ==
    \/ c.promise = "resolved"
    \/ /\ c.promise = "none"
       /\ c.cbArgs # <<>>
       /\ c.cbArgs[1][1] \in {Null, Undefined}

(* C14, as stated: a request whose outbound write failed is completed with an
   error (its promise rejected, or its callback called with a non-null
   error). The write fails on a destroyed socket, from which no Response can
   arrive afterwards. *)
C14_WriteFailureRejects ==
    \A i \in Requests :
        calls[i].write = "failed" => CompletedWithError(calls[i])

(* C15, as stated: a notify call is completed without error exactly when its
   outbound write succeeded, and with the error when its write failed. *)
C15_NotifyWriteOutcome ==
    \A i \in Notifies :
        /\ calls[i].write = "flushed" => CompletedWithoutError(calls[i])
        /\ calls[i].write = "failed" => CompletedWithError(calls[i])
        /\ CompletedWithoutError(calls[i]) => calls[i].write = "flushed"

(* C16, as stated: when the Client's socket is closed by an error, no Pending
   Request Entry is left afterwards and every caller that had one is
   completed with an error. *)
C16_CleanupOnClose ==
    [][(socket # "closed" /\ socket' = "closed") =>
          /\ listeners' = <<>>
          /\ \A k \in DOMAIN listeners :
                CompletedWithError(calls'[listeners[k].call])]_vars

-----------------------------------------------------------------------------
\* the Response the server writes when invocation j's callback is called with
\* the k-th outcome recorded for it
ResponseOf(j, k) ==
    WireMessage(createResponseMessage(1, invoked[j].msgid,
                                      invoked[j].outs[k][1], invoked[j].outs[k][2]))

(* C17: each call of a completion callback appends its Response to what the
   server has written on the connection at that moment, so Responses go out
   in the order of the callback calls, whatever the order in which the
   Requests arrived; and a handler that has not called its callback blocks
   neither the callback of any other invocation nor the dispatch of the next
   inbound message. *)
C17_CompletionOrder ==
    /\ [][\A j \in DOMAIN invoked :
             invoked'[j].outs # invoked[j].outs =>
                 s2c' = Append(s2c, WireMessage(createResponseMessage(1, invoked[j].msgid,
                            invoked'[j].outs[Len(invoked'[j].outs)][1],
                            invoked'[j].outs[Len(invoked'[j].outs)][2])))]_vars
    /\ [](\A j \in DOMAIN invoked :
             (serverAlive /\ invoked[j].callback # Undefined /\ invoked[j].outs = <<>>)
                 => ENABLED respond(j, Null, Str("bar")))
    /\ []((serverAlive /\ c2s # <<>>) => ENABLED onMessage)

\* two Requests were dispatched in one order and answered in the other: the
\* Response of the second is on the connection ahead of that of the first
C17_Witness ==
    /\ Len(invoked) = 2
    /\ invoked[1].msgid # invoked[2].msgid
    /\ Len(invoked[1].outs) = 1 /\ Len(invoked[2].outs) = 1
    /\ s2c = <<ResponseOf(2, 1), ResponseOf(1, 1)>>

-----------------------------------------------------------------------------
(* C20: when the server takes a message whose method the application
   registered, it invokes the handler once with the params of the message;
   the second argument is undefined for a Notification and a function for a
   Request. *)
C20_HandlerArguments ==
    [][(ServerTakes /\ InboundMethod \in {Str(n) : n \in registered}) =>
          /\ Len(invoked') = Len(invoked) + 1
          /\ LET h == invoked'[Len(invoked')]
             IN  /\ h.method = InboundMethod
                 /\ h.params = parseMessage(Head(c2s)).params
                 /\ InboundType = Num(Small(2)) => h.callback = Undefined
                 /\ InboundType = Num(Small(0)) => isFunction(h.callback)]_vars

\* the handler of "foo" has run for a Notification, without a callback, and
\* for a Request, with one
C20_Witness ==
    \E i, j \in DOMAIN invoked :
        /\ invoked[i].method = Str("foo") /\ invoked[j].method = Str("foo")
        /\ invoked[i].callback = Undefined /\ invoked[i].msgid = Num(MinusOne)
        /\ isFunction(invoked[j].callback) /\ invoked[j].msgid # Num(MinusOne)
        /\ invoked[i].params = Arr(<<One>>)

-----------------------------------------------------------------------------
(* C19, as stated: the callback given to a handler is one-shot: once it has
   written a Response for an invocation, a further call of it writes
   nothing, so at most one Response is written per Request. *)
C19_OneShot ==
    [][\A j \in DOMAIN invoked :
          (invoked[j].outs # <<>> /\ invoked'[j].outs # invoked[j].outs)
              => s2c' = s2c]_vars

-----------------------------------------------------------------------------
(* A server with several connections: connectionListener runs once per
   accepted socket, and each socket's data listener closes over that socket.
   The peers are any MessagePack-RPC clients, each with its own id counter. *)

\* ids a peer uses; peers on different connections may use the same ones
PeerIds == {Small(1), Small(2)}
\* what the peer on connection c can send; the params name the connection
PeerMessages(c) ==
    {<<Num(Small(0)), Num(id), Str(m), Arr(<<Num(Small(c))>>)>> :
        id \in PeerIds, m \in {"foo"}}
    \cup {<<Num(Small(0)), Num(Small(1)), Str("bar"), Arr(<<Num(Small(c))>>)>>}
    \cup {<<Num(Small(2)), Str("foo"), Arr(<<Num(Small(c))>>)>>}
\* the number of messages the peers have sent so far
RECURSIVE SentUpTo(_)
SentUpTo(c) == IF c = 0 THEN 0 ELSE Len(wire[c].sent) + SentUpTo(c - 1)

\* the peer on connection c writes a message
peerSend(c, message) ==
    /\ SentUpTo(MaxConns) < MaxPeerMsgs
    /\ wire' = [wire EXCEPT ![c].sent = Append(@, WireMessage(message))]
    /\ UNCHANGED <<msgid, issued, calls, listeners, socket, outq, c2s, s2c, serverAlive,
                   registered, invoked, input, output, seed, allocated, written, running,
                   ended, percall>>

\* the data listener of socket c takes the next message its peer sent
socketData(c) ==
    /\ serverAlive
    /\ wire[c].read < Len(wire[c].sent)
    /\ LET inv == Invocation(wire[c].sent[wire[c].read + 1])
       IN  IF inv.method \in eventNames
           THEN /\ running' = Append(running,
                        [socket |-> c, method |-> inv.method, params |-> inv.params,
                         callback |-> inv.callback, msgid |-> inv.msgid, outs |-> <<>>])
                /\ serverAlive' = (inv.method # Str("connection"))
                /\ written' = written
           ELSE /\ written' = [written EXCEPT ![c] = writeMessage(@, NotImplemented(inv.msgid))]
                /\ UNCHANGED <<running, serverAlive>>
    /\ wire' = [wire EXCEPT ![c].read = @ + 1]
    /\ UNCHANGED <<msgid, issued, calls, listeners, socket, outq, c2s, s2c,
                   registered, invoked, input, output, seed, allocated, ended, percall>>

socketOfLatest(i) == running[Len(running)].socket
\* the socket the callback of invocation i closes over
socketOf(i) == running[i].socket

\* a handler calls the callback of invocation i with (error, result)
socketRespond(i, error, result) ==
    /\ serverAlive
    /\ i \in DOMAIN running
    /\ running[i].callback # Undefined
    /\ Len(running[i].outs) < MaxCb
    /\ written' = [written EXCEPT ![socketOf(i)] =
                      writeMessage(@, createResponseMessage(1, running[i].msgid, error, result))]
    /\ running' = [running EXCEPT ![i].outs = Append(@, <<error, result>>)]
    /\ UNCHANGED <<msgid, issued, calls, listeners, socket, outq, c2s, s2c, serverAlive,
                   registered, invoked, input, output, seed, allocated, wire,
                   ended, percall>>

\* what a handler passes to its callback: a result, or an error
ServerOutcomes == {<<Null, Str("bar")>>, <<Err("error"), Undefined>>}

ServerNext ==
    \/ \E c \in Conns : \E m \in PeerMessages(c) : peerSend(c, m)
    \/ \E c \in Conns : socketData(c)
    \/ \E i \in 1..MaxPeerMsgs, o \in ServerOutcomes : socketRespond(i, o[1], o[2])

ServerSpec == LiveInit /\ [][ServerNext]_vars

\* the connection named by the params of an invocation: where its Request
\* was sent
Origin(r) == r.params.a[1].n[2]

(* C18: whenever a handler calls the callback of an invocation, the Response
   carries the id of the Request the invocation was made for and is appended
   to what was written on the connection that Request arrived on; every
   other connection is left as it was. And every invocation was made for a
   message that arrived on the connection its params name, with that id. *)
C18_OwnIdOwnConnection ==
    /\ [][\A i \in DOMAIN running :
             running'[i].outs # running[i].outs =>
                 LET out == running'[i].outs[Len(running'[i].outs)]
                     c == Origin(running[i])
                 IN  written' = [written EXCEPT ![c] =
                         Append(@, <<One, running[i].msgid,
                                     IF out[1].t = "Error" THEN Str(out[1].message) ELSE out[1],
                                     Wire(out[2])>>)]]_vars
    /\ [](\A i \in DOMAIN running :
             \E n \in 1..wire[Origin(running[i])].read :
                 LET m == wire[Origin(running[i])].sent[n]
                 IN  /\ m[Len(m)] = running[i].params
                     /\ m[1] = Num(Small(0)) => running[i].msgid = m[2])

\* Requests with the same id arrived on two connections and a third Request
\* with another id on the first; the handlers answered in another order than
\* they were invoked, and each connection holds the Responses of its own
\* Requests, with their ids
C18_Witness ==
    /\ Len(running) = 3
    /\ Origin(running[1]) = 2 /\ Origin(running[2]) = 1 /\ Origin(running[3]) = 1
    /\ running[1].msgid = running[2].msgid
    /\ running[3].msgid # running[2].msgid
    /\ running[1].outs = <<<<Err("error"), Undefined>>>>
    /\ running[2].outs = <<<<Null, Str("bar")>>>>
    /\ running[3].outs = <<<<Null, Str("bar")>>>>
    /\ written[1] = << <<One, running[3].msgid, Null, Str("bar")>>,
                       <<One, running[2].msgid, Null, Str("bar")>> >>
    /\ written[2] = << <<One, running[1].msgid, Str("error"), Null>> >>

-----------------------------------------------------------------------------
(* A handler that throws: this.emit calls the handler synchronously, so the
   exception leaves the data listener before anything is written. *)

afterThrowAnswered(stream, inv) ==
    writeMessage(stream, createResponseMessage(1, inv.msgid, Str("error"), Null))
\* what is written on the connection when the handler of inv has thrown:
\* no try/catch surrounds this.emit, nothing is written
afterThrow(stream, inv) == stream

\* the data listener takes a message whose registered handler throws before
\* it has called its callback; the exception escapes the listener
handlerThrows ==
    /\ serverAlive
    /\ c2s # <<>>
    /\ LET inv == Invocation(Head(c2s))
       IN  /\ inv.method \in {Str(n) : n \in registered}
           /\ invoked' = Append(invoked, inv)
           /\ s2c' = afterThrow(s2c, inv)
    /\ serverAlive' = FALSE
    /\ c2s' = Tail(c2s)
    /\ UNCHANGED <<msgid, issued, calls, listeners, socket, outq, registered,
                   input, output, seed, allocated, peers, ended, percall>>

ThrowNext ==
    \/ \E a \in ArgLists : request("foo", a)
    \/ \E a \in ArgLists : notify("foo", a)
    \/ connect
    \/ writeDone
    \/ onData
    \/ onMessage
    \/ handlerThrows
    \/ \E i \in 1..MaxCalls : respondOnce(i)

ThrowSpec == LiveInit /\ [][ThrowNext]_vars

\* request call i is the one whose handler threw
ThrewFor(i) ==
    /\ ~serverAlive
    /\ invoked # <<>>
    /\ invoked[Len(invoked)].msgid = Num(AllocatedId(i))

(* C21: when the handler of a Request has thrown without calling its
   callback, no Response with the Request's id is or will be on the
   connection, and the client's call stays as it was: not completed, its
   Pending Request Entry still registered. *)
C21_ThrowLeavesPending ==
    \A i \in Requests :
        ThrewFor(i) =>
            /\ \A k \in DOMAIN s2c : parseMessage(s2c[k]).msgid # Num(AllocatedId(i))
            /\ ~Completed(calls[i])
            /\ calls[i].by = <<>>
            /\ \E l \in DOMAIN listeners : listeners[l].call = i

\* the handler threw for the second request, after the first was answered;
\* the client has taken everything the server wrote and the second request
\* is still pending
C21_Witness ==
    /\ Len(calls) = 2
    /\ Requests = {1, 2}
    /\ ThrewFor(2)
    /\ Completed(calls[1])
    /\ s2c = <<>>
    /\ Len(listeners) = 1

-----------------------------------------------------------------------------
(* A handler that never answers some Requests: the handler of "foo" calls
   its callback once, except for the params ['hang'], for which it returns
   without ever calling it. *)

Hang == <<Str("hang")>>
DangleArgs == ArgLists \cup {Hang}

\* the handler calls the callback of invocation i, unless the params are ['hang']
answer(i) ==
    /\ i \in DOMAIN invoked
    /\ invoked[i].params # Arr(Hang)
    /\ respondOnce(i)

DangleNext ==
    \/ \E a \in DangleArgs : request("foo", a)
    \/ \E a \in ArgLists : notify("foo", a)
    \/ connect
    \/ writeDone
    \/ onData
    \/ onMessage
    \/ \E i \in 1..MaxCalls : answer(i)

\* the sockets deliver what is written and the handler answers what it answers
DangleSpec ==
    /\ LiveInit
    /\ [][DangleNext]_vars
    /\ WF_vars(connect)
    /\ WF_vars(writeDone)
    /\ WF_vars(onMessage)
    /\ WF_vars(onData)
    /\ \A i \in 1..MaxCalls : WF_vars(answer(i))

\* call i was made and is not one the handler leaves unanswered
Answerable(i) == IF i \in DOMAIN calls THEN calls[i].parameters # Hang ELSE FALSE

\* call i is completed as it would be with no dangling entry: a request by
\* the Response with its own id, a notify by its write
CompletedByOwn(i) ==
    /\ i \in DOMAIN calls
    /\ Completed(calls[i])
    /\ calls[i].kind = "request" =>
          /\ Len(calls[i].by) = 1
          /\ parseMessage(calls[i].by[1]).msgid = Num(AllocatedId(i))
    /\ calls[i].kind = "notify" =>
          /\ calls[i].write = "flushed"
          /\ calls[i].by = <<>>

(* C22: the Pending Request Entry of a request that is never answered stays
   registered in every later state and its caller is never completed; every
   other call on the connection, made before or after it, is eventually
   completed all the same: a request by the Response with its own id, a
   notify by the completion of its write. *)
C22_DanglingHarmless ==
    /\ [](\A i \in Requests :
             calls[i].parameters = Hang =>
                 /\ ~Completed(calls[i])
                 /\ \E l \in DOMAIN listeners : listeners[l].call = i)
    /\ \A i \in 1..MaxCalls :
          Answerable(i) ~> CompletedByOwn(i)

\* the first request was dispatched and will never be answered; a request
\* made after it is completed, and nothing is in flight any more
C22_Witness ==
    /\ Len(calls) = 2
    /\ calls[1].kind = "request" /\ calls[1].parameters = Hang
    /\ calls[2].kind = "request" /\ CompletedByOwn(2)
    /\ Len(invoked) = 2 /\ invoked[1].outs = <<>>
    /\ outq = <<>> /\ c2s = <<>> /\ s2c = <<>>
    /\ Len(listeners) = 1 /\ listeners[1].call = 1

-----------------------------------------------------------------------------
\* call i was made and the connection is not established yet
MadeBeforeConnect(i) == socket = "connecting" /\ i \in DOMAIN calls

(* C23: while the connection is not yet established nothing has been sent,
   and every request made so far has its id allocated, its message built
   with that id, its Pending Request Entry registered under that id and its
   write queued; and each such request is eventually completed with what
   its own handler answered, as a request made after the connect is. *)
C23_BeforeConnect ==
    /\ [](socket = "connecting" =>
             /\ c2s = <<>>
             /\ \A i \in Requests :
                   /\ parseMessage(calls[i].message).msgid = Num(AllocatedId(i))
                   /\ \E l \in DOMAIN listeners :
                         /\ listeners[l].call = i
                         /\ listeners[l].event = <<"data:", Num(AllocatedId(i))>>
                   /\ Queued(i)
                   /\ calls[i].write = "queued"
                   /\ ~Completed(calls[i]))
    /\ \A i \in 1..MaxCalls : MadeBeforeConnect(i) ~> CompletedByHandler(i)

\* two requests were made before the connection is established: both are
\* queued and registered, with consecutive ids
C23_Witness ==
    /\ socket = "connecting"
    /\ Len(calls) = 2
    /\ Len(outq) = 2
    /\ Len(listeners) = 2
    /\ listeners[1].event # listeners[2].event
    /\ Len(issued) = 2

-----------------------------------------------------------------------------
(* Messages built one after another: the createMessage calls that a run of
   request and notify calls makes, without the sending. *)

\* createMessage(type, "foo", parameters) as request (type 0) or notify
\* (type 2) calls it
buildNext(type, parameters) ==
    /\ Len(calls) < MaxBuilds
    /\ LET cm == createMessage(type, "foo", parameters, msgid)
       IN  /\ msgid' = cm.msgid
           /\ issued' = IF type = 0 THEN Append(issued, cm.msgid) ELSE issued
           /\ calls' = Append(calls, NewCall(IF type = 0 THEN "request" ELSE "notify",
                                             "foo", parameters, cm))
    /\ allocated' = IF type = 0 THEN Inc(allocated) ELSE allocated
    /\ UNCHANGED <<listeners, socket, outq, c2s, s2c, serverAlive, registered, invoked,
                   input, output, seed, peers, ended, percall>>

BuildNext == \E type \in {0, 2}, a \in ArgLists : buildNext(type, a)

BuildSpec == Init /\ [][BuildNext]_vars

(* C26: building a Notification leaves the id counter as it was and puts no
   id in the message; hence, whatever notify calls come in between, the id
   of each Request is the successor (modulo 2^32) of the id of the Request
   before it, and the first is the successor of the counter's start. *)
C26_NotifyAllocatesNothing ==
    /\ [][(Len(calls') = Len(calls) + 1 /\ calls'[Len(calls')].kind = "notify") =>
             /\ msgid' = msgid
             /\ issued' = issued
             /\ Len(calls'[Len(calls')].message) = 3]_vars
    /\ [](\A k \in DOMAIN issued :
             issued[k] = (IF k = 1 THEN AddMod32(seed, 1) ELSE AddMod32(issued[k - 1], 1)))
    /\ [](\A i \in Requests : parseMessage(calls[i].message).msgid = Num(AllocatedId(i)))

\* a Request, two Notifications, a Request: the ids of the two Requests are
\* consecutive
C26_Witness ==
    /\ Len(calls) = 4
    /\ calls[1].kind = "request" /\ calls[2].kind = "notify"
    /\ calls[3].kind = "notify" /\ calls[4].kind = "request"
    /\ parseMessage(calls[4].message).msgid.n
           = AddMod32(parseMessage(calls[1].message).msgid.n, 1)

-----------------------------------------------------------------------------
(* The completion callback called on its own: a handler may pass any value
   as the error. *)

ErrorValues ==
    {Null, Undefined, Str(""), Str("error"), Err("error"), Err(""),
     Num(Small(404)), Arr(<<Str("error")>>)}
ResultValues == {Null, Undefined, Str("bar"), One}

\* callback(error, result) for the Request with id msgid: the Response as the
\* peer decodes it
callbackCall ==
    /\ output = NoOutput
    /\ output' = [message  |-> WireMessage(createResponseMessage(1, Num(msgid),
                                     input.parameters[1], input.parameters[2])),
                  callback |-> Undefined,
                  msgid    |-> msgid]
    /\ UNCHANGED <<msgid, issued, calls, listeners, socket, outq, c2s, s2c, serverAlive,
                   registered, invoked, input, seed, allocated, peers, ended, percall>>

ResponseInit ==
    /\ seed \in Seeds
    /\ msgid = seed
    /\ issued = <<>>
    /\ calls = <<>>
    /\ listeners = <<>>
    /\ socket = "connecting"
    /\ outq = <<>>
    /\ c2s = <<>>
    /\ s2c = <<>>
    /\ serverAlive = TRUE
    /\ registered = {"foo"}
    /\ invoked = <<>>
    /\ input \in [type : {1}, method : {""},
                  parameters : {<<er, re>> : er \in ErrorValues, re \in ResultValues}]
    /\ output = NoOutput
    /\ NoPeers

ResponseSpec == ResponseInit /\ [][callbackCall]_vars

(* C25, as stated: the error of every Response the completion callback
   writes is null or a string, whatever the handler passed as the error. *)
C25_ErrorNullOrString ==
    output # NoOutput => output.message[3].t \in {"null", "string"}

-----------------------------------------------------------------------------
(* Client.close() *)

\* Client.close(): socket.end(), which sends FIN once the writes queued
\* before it are flushed; the readable side stays as it is
close ==
    /\ ~ended
    /\ socket \in {"connecting", "open"}
    /\ ended' = TRUE
    /\ UNCHANGED <<msgid, issued, calls, listeners, socket, outq, c2s, s2c, serverAlive,
                   registered, invoked, input, output, seed, allocated, peers, percall>>

(* A write made after end(): the stream refuses it with 'write after end',
   calls the write's callback with the error (so Client.send's then-handler
   runs writeListener()) and emits 'error'; depending on the version of the
   runtime the error destroys the socket or leaves it half-open. *)
writeAfterEnd(destroys) ==
    /\ socket \in {"connecting", "open"}
    /\ \E k \in DOMAIN outq :
          /\ ~Writable(calls[outq[k].call])
          /\ calls' = [calls EXCEPT ![outq[k].call] =
                           [WriteListenerCalled(@) EXCEPT !.write = "failed"]]
          /\ outq' = SubSeq(outq, 1, k - 1) \o SubSeq(outq, k + 1, Len(outq))
    /\ socket' = IF destroys THEN "closed" ELSE socket
    /\ UNCHANGED <<msgid, issued, listeners, c2s, s2c, serverAlive, registered, invoked,
                   input, output, seed, allocated, peers, ended, percall>>

CloseNext ==
    \/ \E a \in ArgLists : request("foo", a)
    \/ \E a \in ArgLists : notify("foo", a)
    \/ connect
    \/ writeDone
    \/ onData
    \/ onMessage
    \/ \E i \in 1..MaxCalls : respondOnce(i)
    \/ close
    \/ \E destroys \in BOOLEAN : writeAfterEnd(destroys)

CloseSpec == LiveInit /\ [][CloseNext]_vars

(* C30: a call of Client.close() ends the socket and leaves the id counter,
   the pending table, the calls and what is queued or in flight as they
   were; and a request made after close() is never sent, so no Response
   ever reaches it: its caller is never completed. *)
C30_CloseOnlyEnds ==
    /\ [][(~ended /\ ended') =>
             UNCHANGED <<msgid, issued, listeners, calls, outq, c2s, s2c, socket>>]_vars
    /\ [](\A i \in Requests :
             calls[i].afterEnd =>
                 /\ calls[i].by = <<>>
                 /\ ~Completed(calls[i])
                 /\ \A k \in DOMAIN c2s :
                       parseMessage(c2s[k]).msgid # Num(AllocatedId(i))
                 /\ \A j \in DOMAIN invoked : invoked[j].msgid # Num(AllocatedId(i)))

\* close() was called between two requests with the first still pending: the
\* first was answered afterwards and completed, the write of the second was
\* refused and its entry is still in the pending table
C30_Witness ==
    /\ ended
    /\ Len(calls) = 2
    /\ Requests = {1, 2}
    /\ ~calls[1].afterEnd /\ Completed(calls[1])
    /\ calls[2].afterEnd /\ calls[2].write = "failed"
    /\ Len(listeners) = 1 /\ listeners[1].call = 2
    /\ socket = "open"

-----------------------------------------------------------------------------
(* A Client connected to a peer that writes what it likes. *)

\* ids the peer puts in its messages: the first id of a Client started at
\* either seed, and another one
RogueIds == {Small(1), MAX, Small(7)}
\* a Response, a Request, a message with an unknown type, a Notification and
\* an array of one element
RogueMessages ==
    {<<Num(Small(t)), Num(id), Null, Str("bar")>> : t \in {0, 1, 3}, id \in RogueIds}
    \cup {<<Num(Small(2)), Str("foo"), Arr(<<One>>)>>, <<One>>}

\* the peer writes a message on the connection
peerWrites(message) ==
    /\ Len(s2c) < MaxCb
    /\ s2c' = Append(s2c, WireMessage(message))
    /\ UNCHANGED <<msgid, issued, calls, listeners, socket, outq, c2s, serverAlive,
                   registered, invoked, input, output, seed, allocated, peers, ended,
                   percall>>

\* the peer reads what the Client wrote and answers nothing for it
peerReads ==
    /\ c2s # <<>>
    /\ c2s' = Tail(c2s)
    /\ UNCHANGED <<msgid, issued, calls, listeners, socket, outq, s2c, serverAlive,
                   registered, invoked, input, output, seed, allocated, peers, ended,
                   percall>>

RogueNext ==
    \/ \E a \in ArgLists : request("foo", a)
    \/ connect
    \/ writeDone
    \/ onData
    \/ \E m \in RogueMessages : peerWrites(m)
    \/ peerReads

RogueSpec == LiveInit /\ [][RogueNext]_vars

\* the message is no Response: its type is not 1 or it has not four elements
Violation(message) == Len(message) # 4 \/ message[1] # One

(* C24, as stated: when the Client takes an inbound message that is no
   Response, the connection is torn down, no Pending Request Entry is left,
   every caller that had one is completed with an error, and nobody is
   completed normally by that message. *)
C24_ViolationTearsDown ==
    [][(ClientTakes /\ Violation(Head(s2c))) =>
          /\ socket' = "closed"
          /\ listeners' = <<>>
          /\ \A k \in DOMAIN listeners :
                CompletedWithError(calls'[listeners[k].call])
          /\ \A i \in DOMAIN calls :
                CompletedWithoutError(calls'[i]) => CompletedWithoutError(calls[i])]_vars

-----------------------------------------------------------------------------
(* The client that opens a connection for every call (src/src/index.ts). *)

\* the socket send() works on: the one net.createConnection has just made
socketShared(i) == 1
socketFor(i) == i

\* send(client, message, responseListener, writeFinishListener): the state of
\* one call, with its own socket
NewSend(kind, cm) ==
    [kind     |-> kind,
     message  |-> cm.message,
     callback |-> cm.callback,
     promise  |-> IF Falsy(cm.callback) THEN "pending" ELSE "none",
     value    |-> Undefined,
     cbArgs   |-> <<>>,
     fd       |-> socketFor(Len(sends) + 1),
     socket   |-> "connecting",
     \* what was written on that socket, and what the peer wrote on it
     wrote    |-> <<>>,
     inbox    |-> <<>>,
     \* history: calls of writeFinishListener and of responseListener,
     \* assertions that failed, messages the data listener was given
     finished |-> 0,
     listened |-> 0,
     asserted |-> 0,
     got      |-> <<>>]

\* an AssertionError thrown in the data listener is caught by nobody
Running == \A i \in DOMAIN sends : sends[i].asserted = 0

\* Client.request(method, ...parameters)
requestPerCall(method, parameters) ==
    /\ Running
    /\ Len(sends) < MaxCalls
    /\ LET cm == createMessage(0, method, parameters, msgid)
       IN  /\ msgid' = cm.msgid
           /\ issued' = Append(issued, cm.msgid)
           /\ sends' = Append(sends, NewSend("request", cm))
    /\ allocated' = Inc(allocated)
    /\ UNCHANGED <<calls, listeners, socket, outq, c2s, s2c, serverAlive, registered,
                   invoked, input, output, seed, peers, ended, debugOn, forwarded>>

\* Client.notify(method, ...parameters)
notifyPerCall(method, parameters) ==
    /\ Running
    /\ Len(sends) < MaxCalls
    /\ LET cm == createMessage(2, method, parameters, msgid)
       IN  /\ msgid' = cm.msgid
           /\ sends' = Append(sends, NewSend("notify", cm))
    /\ UNCHANGED <<issued, calls, listeners, socket, outq, c2s, s2c, serverAlive,
                   registered, invoked, input, output, seed, allocated, peers, ended,
                   debugOn, forwarded>>

\* the connect listener of send(): writeMessage pipes an encode stream into
\* the socket and ends it with the message
connectListener(i) ==
    /\ Running
    /\ i \in DOMAIN sends
    /\ sends[i].socket = "connecting"
    /\ sends' = [sends EXCEPT ![i].socket = "writing",
                              ![i].wrote = writeMessage(@, sends[i].message)]
    /\ UNCHANGED <<msgid, issued, calls, listeners, socket, outq, c2s, s2c,
                   serverAlive, registered, invoked, input, output, seed, allocated,
                   peers, ended, debugOn, forwarded>>

\* encodeStream.pipe(socket): when the encode stream has ended, the pipe ends
\* the socket, which may happen before the promise of writeMessage is resolved
pipeEnd(i) ==
    /\ Running
    /\ i \in DOMAIN sends
    /\ sends[i].socket = "writing"
    /\ sends' = [sends EXCEPT ![i].socket = "ended"]
    /\ UNCHANGED <<msgid, issued, calls, listeners, socket, outq, c2s, s2c,
                   serverAlive, registered, invoked, input, output, seed, allocated,
                   peers, ended, debugOn, forwarded>>

\* writeFinishListener(): nothing for a request, the callback or resolve()
\* for a notify
WriteFinishListenerCalled(s) ==
    IF s.kind = "request" THEN [s EXCEPT !.finished = @ + 1]
    ELSE IF s.promise = "none"
         THEN [s EXCEPT !.finished = @ + 1, !.cbArgs = Append(@, <<>>)]
         ELSE [s EXCEPT !.finished = @ + 1,
                        !.promise = IF @ = "pending" THEN "resolved" ELSE @]

\* writeMessage(...).then(() => { writeFinishListener(); socket.end(); })
writeFinished(i) ==
    /\ Running
    /\ i \in DOMAIN sends
    /\ sends[i].socket \in {"writing", "ended"}
    /\ sends[i].finished = 0
    /\ sends' = [sends EXCEPT ![i] = [WriteFinishListenerCalled(@) EXCEPT !.socket = "ended"]]
    /\ UNCHANGED <<msgid, issued, calls, listeners, socket, outq, c2s, s2c,
                   serverAlive, registered, invoked, input, output, seed, allocated,
                   peers, ended, debugOn, forwarded>>

\* what the peer writes on a connection: Responses, and messages whose type is
\* 0 or the string '1', with the first id of either seed
PerCallIds == {Small(1), MAX}
PerCallMessages ==
    {<<t, Num(id), Null, Str("bar")>> : t \in {One, Num(Small(0)), Str("1")},
                                        id \in PerCallIds}
    \cup {<<One, Num(Small(1)), Str("error"), Null>>}

\* the number of messages the peer wrote on the connections of calls 1..n
RECURSIVE PeerWrote(_)
PeerWrote(n) ==
    IF n = 0 THEN 0
    ELSE Len(sends[n].got) + Len(sends[n].inbox) + PeerWrote(n - 1)

\* the peer writes a message on the connection of call i
peerAnswers(i, message) ==
    /\ i \in DOMAIN sends
    /\ sends[i].socket # "connecting"
    /\ PeerWrote(Len(sends)) < MaxCb
    /\ sends' = [sends EXCEPT ![i].inbox = Append(@, WireMessage(message))]
    /\ UNCHANGED <<msgid, issued, calls, listeners, socket, outq, c2s, s2c,
                   serverAlive, registered, invoked, input, output, seed, allocated,
                   peers, ended, debugOn, forwarded>>

\* the number a string converts to when == compares it with a number
ToNumber(string) ==
    IF string = "" THEN {Small(0)} ELSE IF string = "1" THEN {Small(1)} ELSE {}

\* a == b of JavaScript for primitive values
LooseEqual(a, b) ==
    \/ a = b
    \/ a.t \in {"undefined", "null"} /\ b.t \in {"undefined", "null"}
    \/ a.t = "number" /\ b.t = "string" /\ a.n \in ToNumber(b.s)
    \/ a.t = "string" /\ b.t = "number" /\ b.n \in ToNumber(a.s)

\* assert.deepEqual({ type, msgid }, { type: 1, msgid: parseMessage(message).msgid })
\* does not throw
deepEqual(response, message) ==
    /\ LooseEqual(response.type, One)
    /\ LooseEqual(response.msgid, parseMessage(message).msgid)

\* responseListener(error, result, msgid): the callback of the request, the
\* listener of its promise, or nothing for a notify
PerCallListenerCalled(s, error, result, id) ==
    IF s.kind = "notify" THEN [s EXCEPT !.listened = @ + 1]
    ELSE IF s.promise = "none"
         THEN [s EXCEPT !.listened = @ + 1,
                        !.cbArgs = Append(@, <<error, result, id>>)]
         ELSE IF s.promise # "pending"
              THEN [s EXCEPT !.listened = @ + 1]
              ELSE IF ~Falsy(error)
                   THEN [s EXCEPT !.listened = @ + 1, !.promise = "rejected",
                                  !.value = error]
                   ELSE [s EXCEPT !.listened = @ + 1, !.promise = "resolved",
                                  !.value = Arr(<<result, id>>)]

\* the data listener of send()
dataListener(i) ==
    /\ Running
    /\ i \in DOMAIN sends
    /\ sends[i].inbox # <<>>
    /\ LET raw == Head(sends[i].inbox)
           response == parseMessage(raw)
           error == IF response.error = Undefined THEN Null ELSE response.error
           taken == [sends[i] EXCEPT !.inbox = Tail(@), !.got = Append(@, raw)]
       IN  sends' = [sends EXCEPT ![i] =
                IF debugOn /\ ~deepEqual(response, sends[i].message)
                THEN [taken EXCEPT !.asserted = @ + 1]
                ELSE PerCallListenerCalled(taken, error, response.result,
                                           response.msgid)]
    /\ UNCHANGED <<msgid, issued, calls, listeners, socket, outq, c2s, s2c,
                   serverAlive, registered, invoked, input, output, seed, allocated,
                   peers, ended, debugOn, forwarded>>

\* a client started at either seed, with or without NODE_DEBUG=msgpack-rpc-lite
PerCallInit ==
    /\ seed \in Seeds
    /\ msgid = seed
    /\ issued = <<>>
    /\ calls = <<>>
    /\ listeners = <<>>
    /\ socket = "connecting"
    /\ outq = <<>>
    /\ c2s = <<>>
    /\ s2c = <<>>
    /\ serverAlive = TRUE
    /\ registered = {"foo"}
    /\ invoked = <<>>
    /\ input = NoInput
    /\ output = NoOutput
    /\ allocated = Small(0)
    /\ wire = [c \in Conns |-> [sent |-> <<>>, read |-> 0]]
    /\ written = [c \in Conns |-> <<>>]
    /\ running = <<>>
    /\ ended = FALSE
    /\ sends = <<>>
    /\ debugOn \in BOOLEAN
    /\ forwarded = [socket |-> <<>>, client |-> <<>>]

PerCallNext ==
    \/ \E a \in ArgLists : requestPerCall("foo", a)
    \/ \E a \in ArgLists : notifyPerCall("foo", a)
    \/ \E i \in 1..MaxCalls : connectListener(i)
    \/ \E i \in 1..MaxCalls : pipeEnd(i)
    \/ \E i \in 1..MaxCalls : writeFinished(i)
    \/ \E i \in 1..MaxCalls, m \in PerCallMessages : peerAnswers(i, m)
    \/ \E i \in 1..MaxCalls : dataListener(i)

PerCallSpec == PerCallInit /\ [][PerCallNext]_vars

(* C27: every request or notify has a connection of its own; exactly one
   message, the call's own, is written on it and only once it is connected;
   the write-finished listener is called, once, only after that write; the
   connection is ended only after the write; a notify is completed only by
   its write-finished listener. *)
C27_OwnConnection ==
    \A i \in DOMAIN sends :
        LET s == sends[i]
        IN  /\ \A j \in DOMAIN sends : j # i => sends[j].fd # s.fd
            /\ Len(s.wrote) <= 1
            /\ s.socket = "connecting" => s.wrote = <<>>
            /\ s.socket # "connecting" => s.wrote = <<WireMessage(s.message)>>
            /\ s.finished <= 1
            /\ s.finished = 1 => Len(s.wrote) = 1
            /\ s.socket = "ended" => Len(s.wrote) = 1
            /\ s.finished = 1 => s.socket = "ended"
            /\ (s.kind = "notify" /\ (Settled(s) \/ s.cbArgs # <<>>)) => s.finished = 1

\* a request and a notify were made, each wrote its message on its own
\* connection, and both connections are ended
C27_Witness ==
    /\ Len(sends) = 2
    /\ sends[1].kind = "request" /\ sends[2].kind = "notify"
    /\ sends[1].fd # sends[2].fd
    /\ \A i \in 1..2 : /\ sends[i].socket = "ended"
                       /\ sends[i].finished = 1
                       /\ sends[i].wrote = <<WireMessage(sends[i].message)>>
    /\ sends[2].promise = "resolved"

(* C28, as stated: whatever the peer writes on the connection of a request,
   the response listener is called at most once and the caller's callback
   is invoked at most once. *)
C28_AtMostOneResponse ==
    \A i \in DOMAIN sends :
        sends[i].kind = "request" =>
            /\ sends[i].listened <= 1
            /\ Len(sends[i].cbArgs) <= 1

\* the message the data listener of call i takes in this step
Taken(i) ==
    /\ i \in DOMAIN sends
    /\ sends[i].inbox # <<>>
    /\ sends'[i].got = Append(sends[i].got, Head(sends[i].inbox))

(* C29, as stated: with debugging enabled, when the data listener of a
   request takes a message whose type is not 1 or whose id is not the id of
   the request, an assertion fails and the response listener is not called
   for it. *)
C29_AssertionGuards ==
    [][\A i \in 1..MaxCalls :
          (/\ debugOn
           /\ Taken(i)
           /\ sends[i].kind = "request"
           /\ \/ Head(sends[i].inbox)[1] # One
              \/ Head(sends[i].inbox)[2] # sends[i].message[2])
          => /\ sends'[i].asserted = sends[i].asserted + 1
             /\ sends'[i].listened = sends[i].listened
             /\ sends'[i].cbArgs = sends[i].cbArgs
             /\ sends'[i].promise = sends[i].promise]_vars

-----------------------------------------------------------------------------
(* C31, as stated: a request completed by a Response is given the id that
   was allocated for it, as the third argument of its callback or the second
   element of the pair its promise resolves with, whatever the id, 0
   included. *)
C31_DeliveredId ==
    \A i \in Requests :
        LET c == calls[i]
        IN  (c.by # <<>> /\ c.by[1][1] = One) =>
               /\ c.promise = "none" => c.cbArgs[1][3] = Num(AllocatedId(i))
               /\ c.promise = "resolved" => c.value.a[2] = Num(AllocatedId(i))

(* C32, as stated: only an inbound message of type 1 fires a Pending Request
   Entry; when the Client takes a message of any other type, the pending
   table and every call, completed or not, are left as they were. *)
C32_OnlyResponsesFire ==
    [][(ClientTakes /\ Head(s2c)[1] # One) =>
          (listeners' = listeners /\ calls' = calls)]_vars

-----------------------------------------------------------------------------
(* A server whose peer writes messages of any type on the connection. *)

\* a Request, a Response, a message with an unknown type, each for a
\* registered and an unregistered method where it has one, and Notifications
InboundMessages ==
    {<<Num(Small(t)), Num(Small(1)), Str(m), Arr(<<One>>)>> :
        t \in {0, 3}, m \in {"foo", "bar"}}
    \cup {<<One, Num(Small(1)), Null, Str("bar")>>,
          <<One, Num(Small(1)), Str("foo"), Null>>}
    \cup {<<Num(Small(2)), Str(m), Arr(<<One>>)>> : m \in {"foo", "bar"}}

\* the peer writes a message on the connection
peerRequests(message) ==
    /\ Len(c2s) + Len(invoked) + Len(s2c) < MaxPeerMsgs
    /\ c2s' = Append(c2s, WireMessage(message))
    /\ UNCHANGED <<msgid, issued, calls, listeners, socket, outq, s2c, serverAlive,
                   registered, invoked, input, output, seed, allocated, peers, ended,
                   percall>>

DispatchNext ==
    \/ \E m \in InboundMessages : peerRequests(m)
    \/ onMessage
    \/ \E i \in 1..MaxPeerMsgs, o \in ServerOutcomes : respond(i, o[1], o[2])

DispatchSpec == LiveInit /\ [][DispatchNext]_vars

(* C33, as stated: when the server takes an inbound message whose type is 1
   or is none of 0, 1 and 2, no handler is invoked and nothing is written on
   the connection. *)
C33_OnlyRequestsAnswered ==
    [][(ServerTakes /\ InboundType \notin {Num(Small(0)), Num(Small(2))})
          => (invoked' = invoked /\ s2c' = s2c)]_vars

(* C34, as stated: every listener the server invokes for an inbound message
   is one the application registered as an RPC method; 'connection', which
   the application did not register, invokes none. *)
C34_OnlyRegisteredInvoked ==
    \A j \in DOMAIN invoked : invoked[j].method \in {Str(n) : n \in registered}

-----------------------------------------------------------------------------
\* the Pending Request Entry of request i is registered under its id
Registered(i) ==
    \E l \in DOMAIN listeners :
        /\ listeners[l].call = i
        /\ listeners[l].event = EventName(Num(AllocatedId(i)))

(* C35: from the step in which a request issues its write, whether the write
   is still queued, completed, or answered already, its Pending Request
   Entry is registered until a message fires it; and a Response carrying the
   id of a request that nothing has fired yet is given to that request when
   the Client takes it: no Response is lost. *)
C35_NoLostResponse ==
    /\ [](\A i \in Requests : calls[i].by = <<>> => Registered(i))
    /\ [][\A i \in Requests :
             (/\ ClientTakes
              /\ parseMessage(Head(s2c)).msgid = Num(AllocatedId(i))
              /\ calls[i].by = <<>>)
             => calls'[i].by = <<Head(s2c)>>]_vars

\* the Response of the first request is the next message the Client takes
\* and its entry is registered, while the write of the second request is
\* still queued
C35_Witness ==
    /\ Len(calls) = 2
    /\ calls[1].kind = "request" /\ calls[2].kind = "request"
    /\ s2c # <<>>
    /\ Head(s2c)[1] = One
    /\ Head(s2c)[2] = Num(AllocatedId(1))
    /\ calls[1].by = <<>>
    /\ Registered(1)
    /\ Queued(2) /\ Registered(2)

-----------------------------------------------------------------------------
(* C36: the generator is one counter for the process, so the id of a request
   is the seed plus the number of ids allocated in the process so far,
   modulo 2^32, whichever Client allocated them. Two requests of a Client
   fewer than 2^32 allocations apart get different ids, the later one the
   earlier one plus the number of allocations between them, which is at
   least one and more than one when another Client allocated in between. *)
C36_SharedCounter ==
    /\ \A i \in Requests : AllocatedId(i) = nextTimes(seed, calls[i].at)
    /\ \A i, j \in Requests :
          (i < j /\ WithinPeriod(calls[i], calls[j])) =>
             /\ Less(calls[i].at, calls[j].at)
             /\ AllocatedId(j) # AllocatedId(i)
             /\ AllocatedId(j) = nextTimes(AllocatedId(i),
                                           SubCount(calls[j].at, calls[i].at))

\* two requests of the Client within one period whose ids differ and are not
\* consecutive: other Clients allocated 2^32 - 2 ids in between
C36_Witness ==
    /\ Len(calls) = 2
    /\ calls[1].kind = "request" /\ calls[2].kind = "request"
    /\ WithinPeriod(calls[1], calls[2])
    /\ SubCount(calls[2].at, calls[1].at) = MAX
    /\ AllocatedId(2) # AllocatedId(1)
    /\ AllocatedId(2) # next(AllocatedId(1))

-----------------------------------------------------------------------------
(* C37, as stated: with debugging disabled, when the data listener of a
   request takes a message that is not a Response with the id of the request
   written on that connection, the caller's continuation is not invoked:
   neither its callback is called nor its promise settled. *)
C37_OnlyOwnResponseCompletes ==
    [][\A i \in 1..MaxCalls :
          (/\ ~debugOn
           /\ Taken(i)
           /\ sends[i].kind = "request"
           /\ \/ Head(sends[i].inbox)[1] # One
              \/ Head(sends[i].inbox)[2] # sends[i].message[2])
          => /\ sends'[i].cbArgs = sends[i].cbArgs
             /\ sends'[i].promise = sends[i].promise
             /\ sends'[i].value = sends[i].value]_vars

-----------------------------------------------------------------------------
(* The events of the Client's socket. *)

Bool(b) == [t |-> "boolean", b |-> b]
\* the events the constructor forwards
socketEvents == {"connect", "end", "timeout", "drain", "error", "close"}
\* what the socket emits and with which arguments: the six events above, and
\* 'lookup', which the constructor does not listen to
Emissions ==
    {<<"lookup", <<Null, Str("127.0.0.1")>>>>,
     <<"connect", <<>>>>, <<"end", <<>>>>, <<"timeout", <<>>>>, <<"drain", <<>>>>,
     <<"error", <<Err("ECONNRESET")>>>>,
     <<"close", <<Bool(TRUE)>>>>, <<"close", <<Bool(FALSE)>>>>}

reEmitBare(emitted, eventName, args) == Append(emitted, [event |-> eventName, args |-> <<>>])
\* this.emit(eventName, ...args)
reEmit(emitted, eventName, args) == Append(emitted, [event |-> eventName, args |-> args])

\* the state of the socket in which it emits the event
Emits(eventName, args) ==
    IF eventName \in {"lookup", "connect"} THEN socket = "connecting"
    ELSE IF eventName \in {"drain", "end"} THEN socket = "open"
    ELSE IF eventName \in {"timeout", "error"} THEN socket \in {"connecting", "open"}
    ELSE /\ socket = "closed"
         /\ \A k \in DOMAIN forwarded.socket : forwarded.socket[k].event # "close"
         /\ args[1] = Bool(\E k \in DOMAIN forwarded.socket :
                                forwarded.socket[k].event = "error")

\* the socket emits an event: the listener the constructor registered for it,
\* if any, emits it on the Client. 'connect' opens the socket and pipes the
\* decode stream in; after 'end' or 'error' the socket is closed
socketEmits(eventName, args) ==
    /\ Len(forwarded.socket) < MaxEvents
    /\ Emits(eventName, args)
    /\ socket' = IF eventName = "connect" THEN "open"
                 ELSE IF eventName \in {"end", "error"} THEN "closed"
                 ELSE socket
    /\ forwarded' =
          [socket |-> Append(forwarded.socket, [event |-> eventName, args |-> args]),
           client |-> IF eventName \in socketEvents
                      THEN reEmit(forwarded.client, eventName, args)
                      ELSE forwarded.client]
    /\ UNCHANGED <<msgid, issued, calls, listeners, outq, c2s, s2c, serverAlive,
                   registered, invoked, input, output, seed, allocated, peers, ended,
                   sends, debugOn>>

EventsNext ==
    \/ \E a \in ArgLists : request("foo", a)
    \/ writeDone
    \/ onData
    \/ onMessage
    \/ \E i \in 1..MaxCalls : respondOnce(i)
    \/ \E e \in Emissions : socketEmits(e[1], e[2])

EventsSpec == LiveInit /\ [][EventsNext]_vars

\* the socket's emissions of the six forwarded events, in order
Forwardable ==
    SelectSeq(forwarded.socket, LAMBDA o : o.event \in socketEvents)

(* C38: the events the Client has emitted for its socket are the socket's
   emissions of connect, end, timeout, drain, error and close: each one once,
   with its arguments, in the socket's order; and a step in which the socket
   emits an event changes neither the pending table, nor the id counter, nor
   any call. *)
C38_EventsForwarded ==
    /\ [](forwarded.client = Forwardable)
    /\ [][forwarded'.socket # forwarded.socket =>
             /\ Len(forwarded'.client) <= Len(forwarded.client) + 1
             /\ listeners' = listeners
             /\ msgid' = msgid
             /\ allocated' = allocated
             /\ calls' = calls]_vars

\* with a request pending, the socket emitted lookup, connect, error with its
\* Error and close with true; the Client emitted the last three, in that order
C38_Witness ==
    /\ listeners # <<>>
    /\ Len(forwarded.socket) = 4
    /\ forwarded.socket[1].event = "lookup"
    /\ Len(forwarded.client) = 3
    /\ forwarded.client[1] = [event |-> "connect", args |-> <<>>]
    /\ forwarded.client[2] = [event |-> "error", args |-> <<Err("ECONNRESET")>>]
    /\ forwarded.client[3] = [event |-> "close", args |-> <<Bool(TRUE)>>]

-----------------------------------------------------------------------------
(* The deprecated Client.call. *)

callAsPromise(method, args) == request(method, WithoutTrailingFunction(args))
\* Client.call(method, ...args)
call(method, args) == request(method, args)

CallNext ==
    \/ \E a \in ArgLists : call("foo", a)
    \/ connect
    \/ writeDone
    \/ onData
    \/ onMessage
    \/ \E i \in 1..MaxCalls : respondOnce(i)

\* the setting of the test 'call', with every request made through call
CallSpec ==
    /\ LiveInit
    /\ [][CallNext]_vars
    /\ WF_vars(connect)
    /\ WF_vars(writeDone)
    /\ WF_vars(onMessage)
    /\ WF_vars(onData)
    /\ \A i \in 1..MaxCalls : WF_vars(respondOnce(i))

(* C39: a step of call(method, ...args) is a step of request(method, ...args)
   and the other way round, from every state and for every argument list,
   and one is possible exactly when the other is; every call made through
   call has allocated one id and sent [0, id, method, args without a trailing
   callback]; and it is eventually completed with what its handler passed to
   the callback, as a request is. *)
C39_CallIsRequest ==
    /\ [][\A a \in ArgLists : call("foo", a) <=> request("foo", a)]_vars
    /\ [](\A a \in ArgLists : (ENABLED call("foo", a)) <=> (ENABLED request("foo", a)))
    /\ [](/\ allocated = Small(Len(calls))
          /\ \A i \in DOMAIN calls :
                /\ calls[i].kind = "request"
                /\ calls[i].callback = (IF EndsWithFunction(calls[i].parameters)
                                        THEN last(calls[i].parameters) ELSE Undefined)
                /\ calls[i].message =
                      <<Num(Small(0)), Num(AllocatedId(i)), Str(calls[i].method),
                        Arr(WithoutTrailingFunction(calls[i].parameters))>>)
    /\ \A i \in 1..MaxCalls : (Len(calls) >= i) ~> CompletedByHandler(i)

\* call('foo', 1, callback) and call('foo', 1) were made: the callback was
\* called once and the promise is settled, each by its own handler's answer,
\* and both Requests carried the params [1]
C39_Witness ==
    /\ Len(calls) = 2
    /\ calls[1].parameters = <<One, Cb>> /\ calls[2].parameters = <<One>>
    /\ calls[1].message[4] = Arr(<<One>>) /\ calls[2].message[4] = Arr(<<One>>)
    /\ Len(calls[1].cbArgs) = 1
    /\ Settled(calls[2])
    /\ CompletedByHandler(1) /\ CompletedByHandler(2)

====
